---- MODULE Spec2Model ----
(***************************************************************************)
(* Model of src/app.py: the Streamlit front-end that resolves a lab text   *)
(* from an upload or a text area, wraps it in a fixed prompt and sends it  *)
(* to the model through the tenacity retry wrapper safe_generate.          *)
(*                                                                         *)
(* A Python str is a sequence of Unicode code points, a bytes object is a  *)
(* sequence of integers 0..255.  An optional value is None == <<>> or     *)
(* Some(x) == <<x>>.                                                       *)
(***************************************************************************)
EXTENDS Integers, Sequences, FiniteSets, TLC

\* ------------------------------------------------------------- bounds
\* longest upload, in bytes
MaxBytes == 2
\* longest text typed into the text area, in characters
MaxTyped == 2
\* longest text the model returns, in characters
MaxReply == 2

\* ------------------------------------------------------ optional values
None == << >>
Some(x) == << x >>

\* ------------------------------------------------------- str operations
\* all sequences over S of length 0..n
SeqsUpTo(S, n) == UNION { [1..k -> S] : k \in 0..n }

\* str.isspace() for one character
IsSpace(c) ==
    c \in (9..13) \cup (28..32) \cup {133, 160, 5760} \cup (8192..8202)
          \cup {8232, 8233, 8239, 8287, 12288}

RECURSIVE lstrip(_)
lstrip(s) == IF s # << >> /\ IsSpace(Head(s)) THEN lstrip(Tail(s)) ELSE s

RECURSIVE rstrip(_)
rstrip(s) ==
    IF s # << >> /\ IsSpace(s[Len(s)])
    THEN rstrip(SubSeq(s, 1, Len(s) - 1))
    ELSE s

\* str.strip(): leading and trailing whitespace removed
strip(s) == rstrip(lstrip(s))

\* str.lower() for one character (ASCII and Latin-1 letters)
LowerChar(c) ==
    IF c \in 65..90 \/ (c \in 192..222 /\ c # 215) THEN c + 32 ELSE c

\* str.lower()
lower(s) == [i \in 1..Len(s) |-> LowerChar(s[i])]

\* word in s : substring test
Contains(s, word) ==
    \E i \in 0..(Len(s) - Len(word)) : SubSeq(s, i + 1, i + Len(word)) = word

\* ------------------------------------------------- bytes.decode("utf-8")
IsCont(b) == b \in 128..191

\* number of bytes of the sequence that starts with lead byte b; 0: invalid
Utf8Width(b) ==
    IF b \in 0..127 THEN 1
    ELSE IF b \in 194..223 THEN 2
    ELSE IF b \in 224..239 THEN 3
    ELSE IF b \in 240..244 THEN 4
    ELSE 0

\* the second byte also excludes overlong forms, surrogates and > U+10FFFF
Utf8SecondOk(b1, b2) ==
    IF b1 = 224 THEN b2 \in 160..191
    ELSE IF b1 = 237 THEN b2 \in 128..159
    ELSE IF b1 = 240 THEN b2 \in 144..191
    ELSE IF b1 = 244 THEN b2 \in 128..143
    ELSE IsCont(b2)

Utf8Valid(bs, w) ==
    /\ w > 0
    /\ Len(bs) >= w
    /\ w >= 2 => Utf8SecondOk(bs[1], bs[2])
    /\ \A k \in 3..w : IsCont(bs[k])

Utf8CodePoint(bs, w) ==
    IF w = 1 THEN bs[1]
    ELSE IF w = 2 THEN (bs[1] - 192) * 64 + (bs[2] - 128)
    ELSE IF w = 3 THEN (bs[1] - 224) * 4096 + (bs[2] - 128) * 64 + (bs[3] - 128)
    ELSE (bs[1] - 240) * 262144 + (bs[2] - 128) * 4096
         + (bs[3] - 128) * 64 + (bs[4] - 128)

\* Some(str) when the bytes are valid UTF-8, None when decode raises
RECURSIVE decode(_)
decode(bs) ==
    IF bs = << >> THEN Some(<< >>)
    ELSE LET w == Utf8Width(bs[1]) IN
         IF ~Utf8Valid(bs, w) THEN None
         ELSE LET rest == decode(SubSeq(bs, w + 1, Len(bs))) IN
              IF rest = None THEN None
              ELSE Some(<< Utf8CodePoint(bs, w) >> \o rest[1])

\* --------------------------------------------------- program constants
\* wait_random_exponential(min=12, ...)
wait_min == 12
\* wait_random_exponential(..., max=60)
wait_max == 60
\* stop_after_attempt(4)
stop_max_attempt == 4

\* the five literals of system_prompt, concatenated
system_prompt ==
    \* "You are a compassionate medical doctor AI assistant. "
    << 89, 111, 117, 32, 97, 114, 101, 32, 97, 32, 99, 111, 109, 112, 97, 115,
       115, 105, 111, 110, 97, 116, 101, 32, 109, 101, 100, 105, 99, 97, 108,
       32, 100, 111, 99, 116, 111, 114, 32, 65, 73, 32, 97, 115, 115, 105,
       115, 116, 97, 110, 116, 46, 32 >>
    \* "Explain lab results in simple terms. "
    \o << 69, 120, 112, 108, 97, 105, 110, 32, 108, 97, 98, 32, 114, 101, 115,
          117, 108, 116, 115, 32, 105, 110, 32, 115, 105, 109, 112, 108, 101,
          32, 116, 101, 114, 109, 115, 46, 32 >>
    \* "You may suggest general medicine classes or lifestyle tips, "
    \o << 89, 111, 117, 32, 109, 97, 121, 32, 115, 117, 103, 103, 101, 115,
          116, 32, 103, 101, 110, 101, 114, 97, 108, 32, 109, 101, 100, 105,
          99, 105, 110, 101, 32, 99, 108, 97, 115, 115, 101, 115, 32, 111,
          114, 32, 108, 105, 102, 101, 115, 116, 121, 108, 101, 32, 116, 105,
          112, 115, 44, 32 >>
    \* "but do NOT give drug names or exact doses. "
    \o << 98, 117, 116, 32, 100, 111, 32, 78, 79, 84, 32, 103, 105, 118, 101,
          32, 100, 114, 117, 103, 32, 110, 97, 109, 101, 115, 32, 111, 114,
          32, 101, 120, 97, 99, 116, 32, 100, 111, 115, 101, 115, 46, 32 >>
    \* "Always remind the reader to confirm with a licensed doctor."
    \o << 65, 108, 119, 97, 121, 115, 32, 114, 101, 109, 105, 110, 100, 32,
          116, 104, 101, 32, 114, 101, 97, 100, 101, 114, 32, 116, 111, 32,
          99, 111, 110, 102, 105, 114, 109, 32, 119, 105, 116, 104, 32, 97,
          32, 108, 105, 99, 101, 110, 115, 101, 100, 32, 100, 111, 99, 116,
          111, 114, 46 >>

\* "\n\nHere is the lab result:\n"
PromptLead ==
    << 10, 10, 72, 101, 114, 101, 32, 105, 115, 32, 116, 104, 101, 32, 108,
       97, 98, 32, 114, 101, 115, 117, 108, 116, 58, 10 >>

\* "\n\nExplain and recommend."
PromptTail ==
    << 10, 10, 69, 120, 112, 108, 97, 105, 110, 32, 97, 110, 100, 32, 114,
       101, 99, 111, 109, 109, 101, 110, 100, 46 >>

\* BuildPrompt trimming the lab text before formatting it in
BuildPromptStripped(text) ==
    system_prompt \o PromptLead \o strip(text) \o PromptTail

\* f"{system_prompt}\n\nHere is the lab result:\n{final_text}\n\nExplain and recommend."
BuildPrompt(text) == system_prompt \o PromptLead \o text \o PromptTail

\* ["quota", "rate", "limit"]
Keywords ==
    { << 113, 117, 111, 116, 97 >>,
      << 114, 97, 116, 101 >>,
      << 108, 105, 109, 105, 116 >> }

\* any(word in str(e).lower() for word in ["quota", "rate", "limit"])
IsQuotaText(s) == \E word \in Keywords : Contains(lower(s), word)

\* ------------------------------------------------------------ exceptions
\* An exception is its class name and its str().
\* google.api_core ResourceExhausted("429 Quota exceeded")
ExcResourceExhausted ==
    [cls |-> << 82, 101, 115, 111, 117, 114, 99, 101, 69, 120, 104, 97, 117,
                115, 116, 101, 100 >>,
     msg |-> << 52, 50, 57, 32, 81, 117, 111, 116, 97, 32, 101, 120, 99, 101,
                101, 100, 101, 100 >>]

\* a client error class RateLimitError("slow down")
ExcRateLimitError ==
    [cls |-> << 82, 97, 116, 101, 76, 105, 109, 105, 116, 69, 114, 114, 111,
                114 >>,
     msg |-> << 115, 108, 111, 119, 32, 100, 111, 119, 110 >>]

\* ValueError("blocked"), as response.text raises for a blocked response
ExcValueError ==
    [cls |-> << 86, 97, 108, 117, 101, 69, 114, 114, 111, 114 >>,
     msg |-> << 98, 108, 111, 99, 107, 101, 100 >>]

\* what model.generate_content / response.text may raise
Failures == { ExcResourceExhausted, ExcRateLimitError, ExcValueError }

\* hex(id(future)) without the 0x: "7f3a", "face"
Addresses == { << 55, 102, 51, 97 >>, << 102, 97, 99, 101 >> }

\* repr of the finished tenacity Future:
\* "<Future at 0x.. state=finished raised <class name>>"
FutureRepr(e, addr) ==
    << 60, 70, 117, 116, 117, 114, 101, 32, 97, 116, 32, 48, 120 >>
    \o addr
    \o << 32, 115, 116, 97, 116, 101, 61, 102, 105, 110, 105, 115, 104, 101,
          100, 32, 114, 97, 105, 115, 101, 100, 32 >>
    \o e.cls
    \o << 62 >>

\* str() of the tenacity RetryError that safe_generate raises when it gives
\* up (no reraise=True): "RetryError[" + repr(last_attempt) + "]"
RetryErrorStr(e, addr) ==
    << 82, 101, 116, 114, 121, 69, 114, 114, 111, 114, 91 >>
    \o FutureRepr(e, addr)
    \o << 93 >>

\* -------------------------------------------------------------- tenacity
\* StopAfterAttempt giving up one attempt early
StopAfterThree(n) == n >= stop_max_attempt - 1

\* StopAfterAttempt allowing one attempt more
StopAfterFive(n) == n >= stop_max_attempt + 1

\* stop_after_attempt(4): give up once this many attempts were made
StopAfterAttempt(n) == n >= stop_max_attempt

\* wait_exponential part: max(max(0, min), min(1 * 2 ** (n - 1), max))
WaitHigh(n) ==
    LET result == 2 ^ (n - 1)
        capped == IF result < wait_max THEN result ELSE wait_max
    IN  IF capped > wait_min THEN capped ELSE wait_min

\* WaitRange drawing from zero: random.uniform(0, high)
WaitRangeFromZero(n) == 0 .. WaitHigh(n)

\* wait_random_exponential(min=12, max=60): random.uniform(min, high)
WaitRange(n) == wait_min .. WaitHigh(n)

\* safe_generate_result trimming the front only
safe_generate_lstrip(text) == lstrip(text)

\* return response.text.strip()
safe_generate_result(text) == strip(text)

\* ---------------------------------------------------------------- inputs
\* bytes of an upload: space, and the two bytes of U+00E9
UploadBytes == { 32, 195, 169 }
Uploads == SeqsUpTo(UploadBytes, MaxBytes)

\* characters typed into the text area: space, "A"
TypedChars == { 32, 65 }
TypedTexts == SeqsUpTo(TypedChars, MaxTyped)

\* characters of the text the model returns: newline, "B"
ReplyChars == { 10, 66 }
Replies == SeqsUpTo(ReplyChars, MaxReply)

\* os.getenv("GOOGLE_API_KEY"): unset, "", "AIza"
KeyValues == { None, Some(<< >>), Some(<< 65, 73, 122, 97 >>) }

\* genai.configure / GenerativeModel: returns, or raises ValueError
InitOutcomes == { None, Some(ExcValueError) }

\* ----------------------------------------------------------------- state
VARIABLES
    google_key,      \* os.getenv("GOOGLE_API_KEY")
    init_exc,        \* what client/model initialisation raises, or None
    pc,              \* "start", "idle", "call" or "sleep"
    served,          \* the last script run got as far as the widgets
    uploaded_file,   \* the file uploader's value: None or Some(bytes)
    lab_text_input,  \* the text area's value
    file_text,       \* decoded upload of the last run
    final_text,      \* resolved text of the last run
    clicked,         \* st.button(...) returned True in the last run
    ui,              \* elements displayed by the last run, in order
    full_prompt,     \* the prompt of this submission
    attempt_number,  \* tenacity's attempt counter
    calls,           \* prompts passed to model.generate_content, in order
    outcomes,        \* per attempt: "returned" or "raised"
    waits,           \* back-off sleeps of this submission, in order
    last_exc,        \* exception of the latest failed attempt, or None
    response_text    \* response.text of the successful attempt, or None

env == << google_key, init_exc >>
widgets == << uploaded_file, lab_text_input >>
submission ==
    << full_prompt, attempt_number, calls, outcomes, waits, last_exc,
       response_text >>
vars ==
    << google_key, init_exc, pc, served, uploaded_file, lab_text_input,
       file_text, final_text, clicked, ui, full_prompt, attempt_number,
       calls, outcomes, waits, last_exc, response_text >>

\* a displayed element: st.error / st.warning / st.success / st.write,
\* which fixed message it is, and the text formatted into it
Element(kind, id, arg) == [kind |-> kind, id |-> id, arg |-> arg]

Init ==
    /\ google_key \in KeyValues
    /\ init_exc \in InitOutcomes
    /\ pc = "start"
    /\ served = FALSE
    /\ uploaded_file = None
    /\ lab_text_input = << >>
    /\ file_text = << >>
    /\ final_text = << >>
    /\ clicked = FALSE
    /\ ui = << >>
    /\ full_prompt = << >>
    /\ attempt_number = 0
    /\ calls = << >>
    /\ outcomes = << >>
    /\ waits = << >>
    /\ last_exc = None
    /\ response_text = None

\* ------------------------------------------------------- the script body
\* KeyMissing testing for None only
KeyMissingNoneOnly == google_key = None

\* if not google_key
KeyMissing == google_key = None \/ google_key[1] = << >>

\* the try block around uploaded_file.read().decode("utf-8") raised
DecodeFails(up) == up # None /\ decode(up[1]) = None

\* file_text after the file-upload block
FileText(up) ==
    IF up = None \/ DecodeFails(up) THEN << >> ELSE decode(up[1])[1]

\* UploadWarning swallowing the decode error silently
UploadWarningSilent(up) == << >>

\* st.warning of the except branch of the file-upload block
UploadWarning(up) ==
    IF DecodeFails(up)
    THEN << Element("warning", "unreadable_file", << >>) >>
    ELSE << >>

\* st.text_area(..., value=file_text): a changed default makes a new widget
\* that returns the default; otherwise the widget returns what the user typed
TextArea(new_default, old_default, typed) ==
    IF new_default # old_default THEN new_default ELSE typed

\* FinalText preferring the typed text
FinalTextTypedFirst(ft, typed) == IF strip(typed) # << >> THEN typed ELSE ft

\* final_text = file_text if file_text.strip() else lab_text_input
FinalText(ft, typed) == IF strip(ft) # << >> THEN ft ELSE typed

\* EmptySubmission without the strip
EmptySubmissionNoStrip(text) == text = << >>

\* if not final_text.strip()
EmptySubmission(text) == strip(text) = << >>

\* the except branch of the button handler, for str(e) = s
ErrorElement(s) ==
    IF IsQuotaText(s)
    THEN Element("error", "quota", << >>)
    ELSE Element("error", "oops", s)

NoSubmission ==
    /\ full_prompt' = << >>
    /\ attempt_number' = 0
    /\ calls' = << >>
    /\ outcomes' = << >>
    /\ waits' = << >>
    /\ last_exc' = None
    /\ response_text' = None

\* One run of the script from the top, with the uploader holding up, the
\* text area session value typed and the button returning click, up to the
\* call of safe_generate.
Script(up, typed, click) ==
    IF KeyMissing \/ init_exc # None
    THEN \* st.error(...); st.stop()
         /\ ui' = IF KeyMissing
                  THEN << Element("error", "no_key", << >>) >>
                  ELSE << Element("error", "init_failed", init_exc[1].msg) >>
         /\ served' = FALSE
         /\ clicked' = FALSE
         /\ pc' = "idle"
         /\ NoSubmission
         /\ UNCHANGED << env, widgets, file_text, final_text >>
    ELSE LET ft  == FileText(up)
             ta  == TextArea(ft, file_text, typed)
             fin == FinalText(ft, ta)
         IN  /\ served' = TRUE
             /\ uploaded_file' = up
             /\ file_text' = ft
             /\ lab_text_input' = ta
             /\ final_text' = fin
             /\ clicked' = click
             /\ UNCHANGED env
             /\ IF ~click
                THEN /\ ui' = UploadWarning(up)
                     /\ pc' = "idle"
                     /\ NoSubmission
                ELSE IF EmptySubmission(fin)
                THEN \* st.warning(...); st.stop()
                     /\ ui' = UploadWarning(up)
                               \o << Element("warning", "empty_input", << >>) >>
                     /\ pc' = "idle"
                     /\ NoSubmission
                ELSE /\ ui' = UploadWarning(up)
                     /\ pc' = "call"
                     /\ full_prompt' = BuildPrompt(fin)
                     /\ attempt_number' = 1
                     /\ calls' = << >>
                     /\ outcomes' = << >>
                     /\ waits' = << >>
                     /\ last_exc' = None
                     /\ response_text' = None

\* ---------------------------------------------------------------- actions
\* the page is loaded, or rerun without a widget change
Rerun ==
    /\ pc \in { "start", "idle" }
    /\ Script(uploaded_file, lab_text_input, FALSE)

\* the user picks a file, or removes it
Upload ==
    /\ pc = "idle"
    /\ served
    /\ \E up \in { None } \cup { Some(bs) : bs \in Uploads } :
          /\ up # uploaded_file
          /\ Script(up, lab_text_input, FALSE)

\* the user edits the text area
Type ==
    /\ pc = "idle"
    /\ served
    /\ \E t \in TypedTexts :
          /\ t # lab_text_input
          /\ Script(uploaded_file, t, FALSE)

\* the user clicks the submit button
Click ==
    /\ pc = "idle"
    /\ served
    /\ Script(uploaded_file, lab_text_input, TRUE)

\* an attempt of safe_generate returns: the handler shows the answer
GenerateReturns ==
    /\ pc = "call"
    /\ \E text \in Replies :
          /\ calls' = Append(calls, full_prompt)
          /\ outcomes' = Append(outcomes, "returned")
          /\ response_text' = Some(text)
          /\ ui' = ui \o << Element("success", "draft_heading", << >>),
                            Element("write", "answer",
                                    safe_generate_result(text)) >>
    /\ pc' = "idle"
    /\ UNCHANGED << env, widgets, served, file_text, final_text, clicked,
                    full_prompt, attempt_number, waits, last_exc >>

\* an attempt of safe_generate raises: tenacity backs off, or gives up with
\* RetryError, which the handler's except branch displays
GenerateRaises ==
    /\ pc = "call"
    /\ \E e \in Failures :
          /\ calls' = Append(calls, full_prompt)
          /\ outcomes' = Append(outcomes, "raised")
          /\ last_exc' = Some(e)
          /\ IF StopAfterAttempt(attempt_number)
             THEN /\ \E addr \in Addresses :
                        ui' = Append(ui, ErrorElement(RetryErrorStr(e, addr)))
                  /\ pc' = "idle"
             ELSE /\ ui' = ui
                  /\ pc' = "sleep"
    /\ UNCHANGED << env, widgets, served, file_text, final_text, clicked,
                    full_prompt, attempt_number, waits, response_text >>

\* tenacity sleeps, then starts the next attempt
Sleep ==
    /\ pc = "sleep"
    /\ \E w \in WaitRange(attempt_number) : waits' = Append(waits, w)
    /\ attempt_number' = attempt_number + 1
    /\ pc' = "call"
    /\ UNCHANGED << env, widgets, served, file_text, final_text, clicked, ui,
                    full_prompt, calls, outcomes, last_exc, response_text >>

Next ==
    \/ Rerun
    \/ Upload
    \/ Type
    \/ Click
    \/ GenerateReturns
    \/ GenerateRaises
    \/ Sleep

Spec == Init /\ [][Next]_vars

\* ------------------------------------------------------------ properties
\* indices of the displayed elements with message id
Shown(id) == { i \in 1..Len(ui) : ui[i].id = id }

\* indices of the attempts that raised
Raised == { i \in 1..Len(outcomes) : outcomes[i] = "raised" }

\* the submission made all its attempts and every one raised
AllFailed == Len(outcomes) = 4 /\ Cardinality(Raised) = 4

\* the lab text a prompt carries between the fixed lead and the fixed tail
LabTextOf(prompt) ==
    SubSeq(prompt, Len(system_prompt) + Len(PromptLead) + 1,
           Len(prompt) - Len(PromptTail))

\* the upload is present and its bytes are not valid UTF-8
BadUpload == uploaded_file # None /\ decode(uploaded_file[1]) = None

\* the upload is present and its bytes are valid UTF-8
GoodUpload == uploaded_file # None /\ decode(uploaded_file[1]) # None

\* C1: a click whose resolved text is empty after trimming issues no
\* generation call and shows the prompt-for-input warning; every call that is
\* issued carries a lab text that is non-empty after trimming.
C1_EmptySubmitNoCall ==
    /\ (clicked /\ strip(final_text) = << >>) =>
          /\ calls = << >>
          /\ pc = "idle"
          /\ Cardinality(Shown("empty_input")) = 1
    /\ \A i \in 1..Len(calls) : strip(LabTextOf(calls[i])) # << >>

\* C1 witness: a click on a whitespace-only text was turned away
C1_Witness ==
    /\ clicked
    /\ final_text # << >>
    /\ strip(final_text) = << >>
    /\ Shown("empty_input") # { }
    /\ calls = << >>

\* C2: attempts are made in order until the first one returns, whose result
\* is the submission's result; after three failures a fourth attempt is
\* made, and there is never a fifth.
C2_RetryBoundary ==
    /\ Len(calls) <= 4
    /\ Len(outcomes) = Len(calls)
    /\ \A i \in 1..(Len(outcomes) - 1) : outcomes[i] = "raised"
    /\ (outcomes # << >> /\ outcomes[Len(outcomes)] = "returned") =>
          /\ pc = "idle"
          /\ response_text # None
          /\ Shown("answer") # { }
          /\ Shown("quota") \cup Shown("oops") = { }
    /\ (outcomes # << >> /\ outcomes[Len(outcomes)] = "raised"
          /\ Len(outcomes) < 4) => pc \in { "sleep", "call" }
    /\ pc = "sleep" => attempt_number = Len(calls)
    /\ pc = "call" => attempt_number = Len(calls) + 1

\* C2 witness: three failures, then the fourth attempt returned and was shown
C2_Witness ==
    /\ outcomes = << "raised", "raised", "raised", "returned" >>
    /\ pc = "idle"
    /\ Shown("answer") # { }

\* C3: a terminal failure whose message contains "quota", "rate" or "limit"
\* (case-insensitive) is displayed with the quota-specific message, not the
\* generic one.
C3_QuotaMessageShown ==
    (pc = "idle" /\ AllFailed /\ IsQuotaText(last_exc[1].msg)) =>
        /\ Shown("quota") # { }
        /\ Shown("oops") = { }

\* C4 as stated: an upload that decodes to a non-empty string is the
\* resolved text, whatever was typed.
C4_NonEmptyUploadWins ==
    (GoodUpload /\ decode(uploaded_file[1])[1] # << >>) =>
        final_text = decode(uploaded_file[1])[1]

\* C4 amended: an upload that decodes to a string that is non-empty after
\* trimming whitespace is the resolved text, whatever was typed.
C4_NonBlankUploadWins ==
    (GoodUpload /\ strip(decode(uploaded_file[1])[1]) # << >>) =>
        final_text = decode(uploaded_file[1])[1]

\* C4 witness: a non-blank upload won over a different, non-blank typed text
C4_Witness ==
    /\ GoodUpload
    /\ strip(decode(uploaded_file[1])[1]) # << >>
    /\ strip(lab_text_input) # << >>
    /\ lab_text_input # decode(uploaded_file[1])[1]
    /\ final_text = decode(uploaded_file[1])[1]

\* C5: an upload that fails to decode gives the could-not-read warning, an
\* empty file text and the typed text as the resolved text; the script goes
\* on, and a click with a non-blank typed text issues a request.
C5_DecodeFailureFallsBack ==
    BadUpload =>
        /\ served
        /\ Cardinality(Shown("unreadable_file")) = 1
        /\ file_text = << >>
        /\ final_text = lab_text_input
        /\ (clicked /\ strip(lab_text_input) # << >>) =>
              (pc = "call" \/ calls # << >>)

\* C5 witness: with an undecodable upload in place a typed text was sent
C5_Witness ==
    /\ BadUpload
    /\ clicked
    /\ calls # << >>
    /\ LabTextOf(calls[1]) = lab_text_input
    /\ Shown("unreadable_file") # { }

\* C6 as stated: the prompt of every call is the system instruction followed
\* by exactly the resolved lab text.
C6_PromptIsInstructionThenText ==
    \A i \in 1..Len(calls) : calls[i] = system_prompt \o final_text

\* C6 amended: the prompt of every call, the same for every attempt, is the
\* system instruction, the line "Here is the lab result:", the resolved lab
\* text unmodified, and the closing line "Explain and recommend.".
C6_PromptWrapsText ==
    /\ \A i \in 1..Len(calls) :
          calls[i] = system_prompt \o PromptLead \o final_text \o PromptTail
    /\ pc \in { "call", "sleep" } =>
          full_prompt = system_prompt \o PromptLead \o final_text \o PromptTail

\* C6 witness: a text with surrounding whitespace was sent twice
C6_Witness ==
    /\ Len(calls) >= 2
    /\ calls[1] = calls[2]
    /\ final_text # strip(final_text)

\* C7 as stated: the explanation displayed is the returned text verbatim,
\* displayed exactly once.
C7_AnswerVerbatim ==
    response_text # None =>
        /\ Cardinality(Shown("answer")) = 1
        /\ \A i \in Shown("answer") : ui[i].arg = response_text[1]

\* C7 amended: the explanation displayed is the returned text with leading
\* and trailing whitespace removed, displayed exactly once, and only for a
\* returned text.
C7_AnswerStripped ==
    /\ response_text # None =>
          /\ Cardinality(Shown("answer")) = 1
          /\ \A i \in Shown("answer") : ui[i].arg = strip(response_text[1])
    /\ response_text = None => Shown("answer") = { }

\* C7 witness: a returned text that ends in whitespace was displayed
C7_Witness ==
    /\ response_text # None
    /\ response_text[1] # rstrip(response_text[1])
    /\ strip(response_text[1]) # << >>
    /\ Shown("answer") # { }

\* C8: a submission whose four attempts all failed ends with one error
\* message and no success display; an error message of a submission is shown
\* only after four failed attempts, whatever the exceptions were.
C8_ErrorOnlyAfterFourFailures ==
    /\ AllFailed =>
          /\ pc = "idle"
          /\ Cardinality(Shown("quota") \cup Shown("oops")) = 1
          /\ Shown("draft_heading") \cup Shown("answer") = { }
    /\ Shown("quota") \cup Shown("oops") # { } => AllFailed

\* C8 witness: four failures of different classes ended in the generic error
C8_Witness ==
    /\ AllFailed
    /\ Shown("oops") # { }
    /\ last_exc = Some(ExcValueError)
    /\ Len(calls) = 4

\* C9: between two consecutive attempts there is exactly one wait of 12 to
\* 60 time units; none before the first attempt or after the last; so at
\* most three waits.
C9_BackoffWaits ==
    /\ \A i \in 1..Len(waits) : waits[i] >= 12 /\ waits[i] <= 60
    /\ Len(waits) <= 3
    /\ calls = << >> => waits = << >>
    /\ pc = "sleep" => Len(waits) = Len(calls) - 1
    /\ pc = "call" => Len(waits) = Len(calls)
    /\ (pc = "idle" /\ calls # << >>) => Len(waits) = Len(calls) - 1

\* C9 witness: a submission that went through all four attempts waited thrice
C9_Witness ==
    /\ pc = "idle"
    /\ Len(calls) = 4
    /\ Len(waits) = 3

\* C10: with the API key unset or empty, or initialisation raising, every
\* run shows an error and stops before the form: no input is collected, no
\* click is handled and no generation call is issued.
C10_StartupHalts ==
    (google_key = None \/ google_key = Some(<< >>) \/ init_exc # None) =>
        /\ ~served
        /\ uploaded_file = None
        /\ lab_text_input = << >>
        /\ ~clicked
        /\ calls = << >>
        /\ pc \in { "start", "idle" }
        /\ pc = "idle" =>
              /\ Len(ui) = 1
              /\ ui[1].kind = "error"
              /\ ui[1].id \in { "no_key", "init_failed" }

\* C10 witness: a run with an empty key stopped at the key error
C10_Witness ==
    /\ google_key = Some(<< >>)
    /\ pc = "idle"
    /\ Shown("no_key") # { }

====
